---------------------------- MODULE Spec2Model ----------------------------
(***************************************************************************)
(* Model of the two maintenance scripts of retronas                        *)
(*   scripts/maint/update_retrobat_rgs_systems.py  (script "rgs")          *)
(*   scripts/maint/update_retrobat_systems.py      (script "src")          *)
(* Both read a CSV into a mapping table, copy the YAML target to a backup, *)
(* patch the target line by line with regular expressions, write it back   *)
(* and report the ids that are still unresolved.                           *)
(*                                                                         *)
(* Text is a sequence of tokens.  A token is a piece of text that the      *)
(* scripts' literals and regular expressions never split: the three keys   *)
(* "src:", "retrobat:", "retrobat_rgs:", the quote, the comma, the line    *)
(* feed, one blank, a run of two blanks, the root "/roms/", and words      *)
(* that contain none of these.  The text a sequence stands for is the      *)
(* concatenation of its tokens; no key is a substring of another key or    *)
(* of a concatenation of the other tokens, and two blank tokens are never  *)
(* adjacent, so a substring or regex match in the text is a match on       *)
(* token boundaries and conversely.                                        *)
(***************************************************************************)
EXTENDS Naturals, Sequences, FiniteSets, TLC

VARIABLES
    script,         \* which script runs: "rgs" or "src"
    csvExists,      \* csv_path.exists()
    yamlExists,     \* yaml_path.exists()
    csvFile,        \* the CSV on disk: a sequence of rows, the header first
    yamlFile,       \* the YAML target on disk: text
    backupExists,   \* backup_path exists
    backupFile,     \* the backup on disk: text
    pc,             \* position of main()
    mappings,       \* dict of read_csv_mappings, in insertion order
    lines,          \* update_yaml_file: lines
    i,              \* update_yaml_file: index of the next line (1-based)
    updated_count,  \* update_yaml_file: updated_count
    not_found,      \* update_yaml_file: not_found
    exitCode,       \* the process's exit status, NoExit while it runs
    run             \* how many times the script was started

vars == <<script, csvExists, yamlExists, csvFile, yamlFile, backupExists,
          backupFile, pc, mappings, lines, i, updated_count, not_found,
          exitCode, run>>

-----------------------------------------------------------------------------
(* Bounds of the model *)

MaxRows == 2

MaxLines == 2

MaxRuns == 2

-----------------------------------------------------------------------------
(* Tokens and literals *)

Q == "\""

LF == "\n"

SrcKey == "src:"

RetrobatKey == "retrobat:"

RgsKey == "retrobat_rgs:"

RomsRoot == <<"/roms/">>

NoExit == 2

IsSpace(t) == t \in {" ", "  "}

\* f'src: "{v}"'
SrcField(v) == <<SrcKey, " ", Q>> \o v \o <<Q>>

\* f'retrobat: "{v}"'
RetrobatField(v) == <<RetrobatKey, " ", Q>> \o v \o <<Q>>

\* f'retrobat_rgs: "{v}"'
RgsField(v) == <<RgsKey, " ", Q>> \o v \o <<Q>>

-----------------------------------------------------------------------------
(* Python string operations *)

\* s has sub at position k
StartsAt(s, k, sub) ==
    /\ k + Len(sub) - 1 <= Len(s)
    /\ \A j \in 1..Len(sub) : s[k + j - 1] = sub[j]

\* sub in s
Contains(s, sub) == \E k \in 1..(Len(s) + 1) : StartsAt(s, k, sub)

RECURSIVE ReplaceFrom(_, _, _, _)
ReplaceFrom(s, k, old, new) ==
    IF k > Len(s) THEN <<>>
    ELSE IF StartsAt(s, k, old)
         THEN new \o ReplaceFrom(s, k + Len(old), old, new)
         ELSE <<s[k]>> \o ReplaceFrom(s, k + 1, old, new)

\* s.replace(old, new): every non-overlapping occurrence, left to right
StrReplace(s, old, new) == ReplaceFrom(s, 1, old, new)

RECURSIVE Join(_)
\* ''.join(ls), f.writelines(ls)
Join(ls) == IF ls = <<>> THEN <<>> ELSE Head(ls) \o Join(Tail(ls))

RECURSIVE SplitFrom(_, _, _)
SplitFrom(s, k, cur) ==
    IF k > Len(s) THEN (IF cur = <<>> THEN <<>> ELSE <<cur>>)
    ELSE IF s[k] = LF
         THEN <<Append(cur, LF)>> \o SplitFrom(s, k + 1, <<>>)
         ELSE SplitFrom(s, k + 1, Append(cur, s[k]))

\* f.readlines(): the lines, each with its line feed
ReadLines(s) == SplitFrom(s, 1, <<>>)

-----------------------------------------------------------------------------
(* The regular expressions  key\s*"[^"]+"  and  key\s*"[^"]*"  (and, for   *)
(* the insertion, the same followed by a comma).  A pattern is the record  *)
(* [key, min, comma]: min is the least length of the quoted value, comma   *)
(* says whether a comma must follow the closing quote.                     *)

\* r'src:\s*"([^"]+)"'
SrcPattern == [key |-> SrcKey, min |-> 1, comma |-> FALSE]

\* r'retrobat:\s*"([^"]+)"'
RetrobatPattern == [key |-> RetrobatKey, min |-> 1, comma |-> FALSE]

\* r'retrobat_rgs:\s*"([^"]*)"'
RgsPattern == [key |-> RgsKey, min |-> 0, comma |-> FALSE]

\* r'(retrobat:\s*"[^"]*",)'
RetrobatCommaPattern == [key |-> RetrobatKey, min |-> 0, comma |-> TRUE]

RECURSIVE SkipSpace(_, _)
\* \s* is greedy: the first position from k on that holds no white space
SkipSpace(s, k) ==
    IF k <= Len(s) /\ IsSpace(s[k]) THEN SkipSpace(s, k + 1) ELSE k

RECURSIVE NextQuote(_, _)
\* [^"]* is greedy: the first quote from k on, 0 when there is none
NextQuote(s, k) ==
    IF k > Len(s) THEN 0
    ELSE IF s[k] = Q THEN k ELSE NextQuote(s, k + 1)

\* The match of pat that starts at k: [open, close, end] are the positions
\* of the opening quote, the closing quote and the last token of the match;
\* end = 0 when pat does not match at k.
MatchAt(s, k, pat) ==
    IF k > Len(s) \/ s[k] # pat.key THEN [open |-> 0, close |-> 0, end |-> 0]
    ELSE
    LET open  == SkipSpace(s, k + 1)
        close == IF open <= Len(s) /\ s[open] = Q THEN NextQuote(s, open + 1) ELSE 0
        ok    == /\ close # 0
                 /\ close - open - 1 >= pat.min
                 /\ pat.comma => (close + 1 <= Len(s) /\ s[close + 1] = ",")
    IN  [open |-> open, close |-> close,
         end |-> IF ok THEN (IF pat.comma THEN close + 1 ELSE close) ELSE 0]

RECURSIVE SearchFrom(_, _, _)
SearchFrom(s, k, pat) ==
    IF k > Len(s) THEN 0
    ELSE IF MatchAt(s, k, pat).end # 0 THEN k ELSE SearchFrom(s, k + 1, pat)

\* re.search(pat, s): the start of the leftmost match, 0 for None
ReSearch(s, pat) == SearchFrom(s, 1, pat)

\* match.group(1) of the pattern's match at k
Group1(s, k, pat) ==
    LET m == MatchAt(s, k, pat) IN SubSeq(s, m.open + 1, m.close - 1)

RECURSIVE SubFrom(_, _, _, _, _)
SubFrom(s, k, pat, keep, repl) ==
    IF k > Len(s) THEN <<>>
    ELSE LET m == MatchAt(s, k, pat) IN
         IF m.end # 0
         THEN (IF keep THEN SubSeq(s, k, m.end) ELSE <<>>) \o repl
                  \o SubFrom(s, m.end + 1, pat, keep, repl)
         ELSE <<s[k]>> \o SubFrom(s, k + 1, pat, keep, repl)

\* re.sub(pat, template, s): every match, left to right, is replaced by
\* repl, after the match itself (the template's \1) when keep is TRUE
ReSub(s, pat, keep, repl) == SubFrom(s, 1, pat, keep, repl)

-----------------------------------------------------------------------------
(* read_csv_mappings *)

\* mappings[key] = value: a new key goes last, a known key keeps its place
DictSet(m, entry) ==
    IF \E k \in 1..Len(m) : m[k].id = entry.id
    THEN [k \in 1..Len(m) |-> IF m[k].id = entry.id THEN entry ELSE m[k]]
    ELSE Append(m, entry)

\* The body of the loop over the rows
ReadRow(m, row) ==
    IF Len(row) < 4 THEN m
    ELSE DictSet(m, [id            |-> row[2],
                     full_name     |-> row[1],
                     src           |-> StrReplace(row[4], RomsRoot, <<>>),
                     retrobat_path |-> row[3]])

RECURSIVE ReadRows(_, _)
ReadRows(m, rows) ==
    IF rows = <<>> THEN m ELSE ReadRows(ReadRow(m, Head(rows)), Tail(rows))

\* read_csv_mappings(csv_path): next(reader) skips the header
read_csv_mappings(csv) == ReadRows(<<>>, Tail(csv))

\* mappings.keys() / system_name in mappings / mappings[id]
Keys(m) == {m[k].id : k \in 1..Len(m)}

Lookup(m, id) == m[CHOOSE k \in 1..Len(m) : m[k].id = id]

-----------------------------------------------------------------------------
(* update_yaml_file of the rgs script: the body of the loop over the lines *)

RECURSIVE MatchFromLoose(_, _, _)
\* Mutant of MatchFrom: the quoted id or path is looked for without its key
MatchFromLoose(line, m, k) ==
    IF k > Len(m) THEN 0
    ELSE IF Contains(line, <<Q>> \o m[k].id \o <<Q>>) THEN k
    ELSE IF Contains(line, <<Q>> \o m[k].src \o <<Q>>) THEN k
    ELSE MatchFromLoose(line, m, k + 1)

RECURSIVE MatchFrom(_, _, _)
MatchFrom(line, m, k) ==
    IF k > Len(m) THEN 0
    ELSE IF Contains(line, RetrobatField(m[k].id)) THEN k
    ELSE IF Contains(line, SrcField(m[k].src)) THEN k
    ELSE MatchFrom(line, m, k + 1)

\* matched_system: the position in the dict of the first id, in iteration
\* order, whose retrobat field or whose src field is in the line; 0 for None
MatchSystem(line, m) == MatchFrom(line, m, 1)

\* "Update src if needed"
UpdateSrc(line, new_src) ==
    LET src_match == ReSearch(line, SrcPattern) IN
    IF Group1(line, src_match, SrcPattern) # new_src
    THEN ReSub(line, SrcPattern, FALSE, SrcField(new_src))
    ELSE line

\* Mutant of UpdateRgs: a line with a retrobat_rgs field is counted whether
\* or not the field is rewritten
UpdateRgsCountsAll(orig, line, matched_system) ==
    LET rgs_match == ReSearch(orig, RgsPattern) IN
    IF rgs_match # 0
    THEN [line    |-> IF Group1(orig, rgs_match, RgsPattern) # matched_system
                      THEN ReSub(line, RgsPattern, FALSE, RgsField(matched_system))
                      ELSE line,
          counted |-> 1]
    ELSE IF Contains(line, <<RetrobatKey>>)
         THEN [line    |-> ReSub(line, RetrobatCommaPattern, TRUE,
                                 <<" ">> \o RgsField(matched_system) \o <<",">>),
               counted |-> 1]
         ELSE [line |-> line, counted |-> 0]

\* Mutant of UpdateRgs: the template of the insertion lacks \1, so the new
\* field replaces the retrobat field
UpdateRgsDropsMarker(orig, line, matched_system) ==
    LET rgs_match == ReSearch(orig, RgsPattern) IN
    IF rgs_match # 0
    THEN IF Group1(orig, rgs_match, RgsPattern) # matched_system
         THEN [line    |-> ReSub(line, RgsPattern, FALSE, RgsField(matched_system)),
               counted |-> 1]
         ELSE [line |-> line, counted |-> 0]
    ELSE IF Contains(line, <<RetrobatKey>>)
         THEN [line    |-> ReSub(line, RetrobatCommaPattern, FALSE,
                                 <<" ">> \o RgsField(matched_system) \o <<",">>),
               counted |-> 1]
         ELSE [line |-> line, counted |-> 0]

\* "Update or add retrobat_rgs field": orig is the line as read (rgs_match
\* is searched there), line the line after the src update
UpdateRgs(orig, line, matched_system) ==
    LET rgs_match == ReSearch(orig, RgsPattern) IN
    IF rgs_match # 0
    THEN IF Group1(orig, rgs_match, RgsPattern) # matched_system
         THEN [line    |-> ReSub(line, RgsPattern, FALSE, RgsField(matched_system)),
               counted |-> 1]
         ELSE [line |-> line, counted |-> 0]
    ELSE IF Contains(line, <<RetrobatKey>>)
         THEN [line    |-> ReSub(line, RetrobatCommaPattern, TRUE,
                                 <<" ">> \o RgsField(matched_system) \o <<",">>),
               counted |-> 1]
         ELSE [line |-> line, counted |-> 0]

\* One iteration: the line written to lines[i] and what it adds to
\* updated_count
PatchLineRgs(line, m) ==
    LET k == MatchSystem(line, m) IN
    IF k = 0 THEN [line |-> line, counted |-> 0]
    ELSE IF ReSearch(line, SrcPattern) = 0 THEN [line |-> line, counted |-> 0]
    ELSE UpdateRgs(line, UpdateSrc(line, m[k].src), m[k].id)

-----------------------------------------------------------------------------
(* update_yaml_file of the src script: the body of the loop over the lines *)

\* Mutant of PatchLineSrc: a line with a known marker and a src field is
\* counted whether or not it is rewritten
PatchLineSrcCountsAll(line, m) ==
    LET match == ReSearch(line, RetrobatPattern) IN
    IF match = 0 THEN [line |-> line, counted |-> 0]
    ELSE LET system_name == Group1(line, match, RetrobatPattern) IN
    IF system_name \notin Keys(m) THEN [line |-> line, counted |-> 0]
    ELSE LET src_match == ReSearch(line, SrcPattern) IN
    IF src_match = 0 THEN [line |-> line, counted |-> 0]
    ELSE LET new_src == Lookup(m, system_name).src IN
    [line    |-> IF Group1(line, src_match, SrcPattern) # new_src
                 THEN ReSub(line, SrcPattern, FALSE, SrcField(new_src))
                 ELSE line,
     counted |-> 1]

PatchLineSrc(line, m) ==
    LET match == ReSearch(line, RetrobatPattern) IN
    IF match = 0 THEN [line |-> line, counted |-> 0]
    ELSE LET system_name == Group1(line, match, RetrobatPattern) IN
    IF system_name \notin Keys(m) THEN [line |-> line, counted |-> 0]
    ELSE LET src_match == ReSearch(line, SrcPattern) IN
    IF src_match = 0 THEN [line |-> line, counted |-> 0]
    ELSE LET new_src == Lookup(m, system_name).src IN
    IF Group1(line, src_match, SrcPattern) # new_src
    THEN [line    |-> ReSub(line, SrcPattern, FALSE, SrcField(new_src)),
          counted |-> 1]
    ELSE [line |-> line, counted |-> 0]

-----------------------------------------------------------------------------
(* The report of update_yaml_file *)

\* Mutant of ExpectedField: the rgs script looks for the retrobat field, as
\* the src script does
ExpectedFieldOfSrcScript(sc, id) == RetrobatField(id)

\* The substring the report looks for in the final text
ExpectedField(sc, id) == IF sc = "rgs" THEN RgsField(id) ELSE RetrobatField(id)

RECURSIVE NotFoundFrom(_, _, _, _)
NotFoundFrom(sc, m, k, yaml_content) ==
    IF k > Len(m) THEN <<>>
    ELSE (IF Contains(yaml_content, ExpectedField(sc, m[k].id))
          THEN <<>> ELSE <<m[k].id>>)
         \o NotFoundFrom(sc, m, k + 1, yaml_content)

\* not_found after the loop over the mapping
NotFound(sc, m, ls) == NotFoundFrom(sc, m, 1, Join(ls))

-----------------------------------------------------------------------------
(* The inputs: CSV files and YAML targets *)

Header == <<<<"Full Name">>, <<"System">>, <<"RetroBat Path">>, <<"RetroNAS Path">>>>

\* The rows a CSV is made of: well-formed rows, a row whose path holds the
\* root a second time, a row of three columns, a row of five columns whose
\* path lacks the root
RowSet ==
    { <<<<"X">>, <<"x">>, <<"roms\\", "x">>, <<"/roms/", "p">>>>,
      <<<<"Y">>, <<"y">>, <<"roms\\", "y">>, <<"/roms/", "q">>>>,
      <<<<"Y">>, <<"y">>, <<"roms\\", "y">>, <<"/roms/", "p">>>>,
      <<<<"Y">>, <<"y">>, <<"roms\\", "y">>, <<"/roms/", "p", "/roms/", "q">>>>,
      <<<<"X">>, <<"x">>, <<"roms\\", "x">>>>,
      <<<<"X">>, <<"x">>, <<"roms\\", "x">>, <<"q">>, <<"note">>>> }

SeqsUpTo(S, n) == UNION {[1..k -> S] : k \in 0..n}

CsvFiles == {<<Header>> \o rows : rows \in SeqsUpTo(RowSet, MaxRows)}

\* One field of a record line: key, white space, quoted value, and a comma
\* or not
Field(key, ws, val, comma) ==
    <<key>> \o ws \o <<Q>> \o val \o <<Q>> \o (IF comma THEN <<",", " ">> ELSE <<" ">>)

Record(fields) == <<"- {", " ">> \o fields \o <<"}", LF>>

One == <<" ">>

Two == <<"  ">>

\* The lines a target is made of
LineCatalogue ==
    << Record(Field(SrcKey, One, <<"o">>, TRUE) \o Field(RetrobatKey, One, <<"x">>, TRUE)),
       Record(Field(SrcKey, One, <<"p">>, TRUE) \o Field(RetrobatKey, One, <<"y">>, FALSE)),
       <<"# systems", LF>>,
       Record(Field(SrcKey, One, <<"o">>, TRUE) \o Field(RetrobatKey, One, <<"x">>, TRUE)
              \o Field(RgsKey, One, <<"x">>, TRUE)),
       Record(Field(SrcKey, One, <<"q">>, TRUE) \o Field(RetrobatKey, One, <<"y">>, TRUE)
              \o Field(RgsKey, One, <<"x">>, TRUE)),
       Record(Field(SrcKey, One, <<"p">>, TRUE) \o Field(RetrobatKey, One, <<"x">>, TRUE)
              \o Field(RgsKey, One, <<"x">>, TRUE)),
       Record(Field(RetrobatKey, One, <<"x">>, TRUE)),
       Record(Field(SrcKey, One, <<"p">>, TRUE)),
       Record(Field(SrcKey, Two, <<"o">>, TRUE) \o Field(RetrobatKey, One, <<"x">>, TRUE)),
       Record(Field(SrcKey, One, <<"o">>, TRUE) \o Field(RetrobatKey, One, <<"z">>, TRUE)),
       Record(Field(SrcKey, One, <<"q">>, TRUE) \o Field(RetrobatKey, Two, <<"y">>, TRUE)),
       Record(Field(SrcKey, One, <<"q">>, TRUE) \o Field(RetrobatKey, One, <<"z">>, TRUE)
              \o Field(RgsKey, <<>>, <<>>, FALSE)) >>

\* n consecutive lines of the catalogue, from line s on, going round
Window(s, n) ==
    [k \in 1..n |-> LineCatalogue[((s + k - 2) % Len(LineCatalogue)) + 1]]

YamlFiles ==
    {Join(Window(s, n)) : s \in 1..Len(LineCatalogue), n \in 0..MaxLines}

-----------------------------------------------------------------------------
(* main *)

Init ==
    /\ script \in {"rgs", "src"}
    /\ csvExists \in BOOLEAN
    /\ yamlExists \in BOOLEAN
    /\ csvFile \in (IF csvExists THEN CsvFiles ELSE {<<>>})
    /\ yamlFile \in (IF yamlExists THEN YamlFiles ELSE {<<>>})
    /\ backupExists = FALSE
    /\ backupFile = <<>>
    /\ pc = "check_csv"
    /\ mappings = <<>>
    /\ lines = <<>>
    /\ i = 1
    /\ updated_count = 0
    /\ not_found = <<>>
    /\ exitCode = NoExit
    /\ run = 1

files == <<script, csvExists, yamlExists, csvFile, yamlFile, backupExists, backupFile>>

locals == <<mappings, lines, i, updated_count, not_found>>

\* if not csv_path.exists(): sys.exit(1)
CheckCsv ==
    /\ pc = "check_csv"
    /\ \/ ~csvExists /\ exitCode' = 1 /\ pc' = "done"
       \/ csvExists /\ exitCode' = exitCode /\ pc' = "check_yaml"
    /\ UNCHANGED <<files, locals, run>>

\* if not yaml_path.exists(): sys.exit(1)
CheckYaml ==
    /\ pc = "check_yaml"
    /\ \/ ~yamlExists /\ exitCode' = 1 /\ pc' = "done"
       \/ yamlExists /\ exitCode' = exitCode /\ pc' = "read_csv"
    /\ UNCHANGED <<files, locals, run>>

\* mappings = read_csv_mappings(csv_path)
ReadCsv ==
    /\ pc = "read_csv"
    /\ mappings' = read_csv_mappings(csvFile)
    /\ pc' = "backup"
    /\ UNCHANGED <<files, lines, i, updated_count, not_found, exitCode, run>>

\* Mutant of Backup: the backup is opened for writing and nothing is copied
BackupEmpty ==
    /\ pc = "backup"
    /\ backupExists' = TRUE
    /\ backupFile' = <<>>
    /\ pc' = "read_yaml"
    /\ UNCHANGED <<script, csvExists, yamlExists, csvFile, yamlFile, locals,
                   exitCode, run>>

\* dst.write(src.read())
Backup ==
    /\ pc = "backup"
    /\ backupExists' = TRUE
    /\ backupFile' = yamlFile
    /\ pc' = "read_yaml"
    /\ UNCHANGED <<script, csvExists, yamlExists, csvFile, yamlFile, locals,
                   exitCode, run>>

\* update_yaml_file: lines = f.readlines(); updated_count = 0; not_found = []
ReadYaml ==
    /\ pc = "read_yaml"
    /\ lines' = ReadLines(yamlFile)
    /\ i' = 1
    /\ updated_count' = 0
    /\ not_found' = <<>>
    /\ pc' = "loop"
    /\ UNCHANGED <<files, mappings, exitCode, run>>

\* update_yaml_file of the rgs script: one iteration of the loop
PatchRgs ==
    /\ pc = "loop"
    /\ script = "rgs"
    /\ i <= Len(lines)
    /\ LET r == PatchLineRgs(lines[i], mappings) IN
         /\ lines' = [lines EXCEPT ![i] = r.line]
         /\ updated_count' = updated_count + r.counted
    /\ i' = i + 1
    /\ UNCHANGED <<files, mappings, not_found, pc, exitCode, run>>

\* update_yaml_file of the src script: one iteration of the loop
PatchSrc ==
    /\ pc = "loop"
    /\ script = "src"
    /\ i <= Len(lines)
    /\ LET r == PatchLineSrc(lines[i], mappings) IN
         /\ lines' = [lines EXCEPT ![i] = r.line]
         /\ updated_count' = updated_count + r.counted
    /\ i' = i + 1
    /\ UNCHANGED <<files, mappings, not_found, pc, exitCode, run>>

\* update_yaml_file: f.writelines(lines)
WriteBack ==
    /\ pc = "loop"
    /\ i > Len(lines)
    /\ yamlFile' = Join(lines)
    /\ pc' = "report"
    /\ UNCHANGED <<script, csvExists, yamlExists, csvFile, backupExists,
                   backupFile, locals, exitCode, run>>

\* update_yaml_file: the loop that fills not_found, and the return
Report ==
    /\ pc = "report"
    /\ not_found' = NotFound(script, mappings, lines)
    /\ pc' = "return"
    /\ UNCHANGED <<files, mappings, lines, i, updated_count, exitCode, run>>

\* main: return 1 if not_found, else 0
Return ==
    /\ pc = "return"
    /\ exitCode' = (IF not_found # <<>> THEN 1 ELSE 0)
    /\ pc' = "done"
    /\ UNCHANGED <<files, locals, run>>

\* The script is started again on the files the last run left
Rerun ==
    /\ pc = "done"
    /\ run < MaxRuns
    /\ run' = run + 1
    /\ pc' = "check_csv"
    /\ mappings' = <<>>
    /\ lines' = <<>>
    /\ i' = 1
    /\ updated_count' = 0
    /\ not_found' = <<>>
    /\ exitCode' = NoExit
    /\ UNCHANGED files

Next ==
    \/ CheckCsv
    \/ CheckYaml
    \/ ReadCsv
    \/ Backup
    \/ ReadYaml
    \/ PatchRgs
    \/ PatchSrc
    \/ WriteBack
    \/ Report
    \/ Return
    \/ Rerun

Spec == Init /\ [][Next]_vars

-----------------------------------------------------------------------------
(* Notions the claims share *)

\* The lines of the target as the current run found it: the backup is the
\* copy main takes before update_yaml_file reads the target
Orig == ReadLines(backupFile)

\* main ran to its end (it did not stop at a missing file)
Finished == pc = "done" /\ csvExists /\ yamlExists

\* Line k of the target went through the loop's body in this run
Patched(k) ==
    /\ k \in 1..Len(lines)
    /\ \/ pc = "loop" /\ k < i
       \/ pc \in {"report", "return"}
       \/ Finished

\* The target has been written back in this run
Written == pc \in {"report", "return"} \/ Finished

\* The quoted value of the leftmost field of pattern pat, <<>> in a
\* one-element sequence; the empty sequence when the line has no such field
ValueOf(line, pat) ==
    IF ReSearch(line, pat) = 0 THEN <<>>
    ELSE <<Group1(line, ReSearch(line, pat), pat)>>

\* line, with the tokens between the quotes of the leftmost field of pat
\* replaced by v and nothing else touched
WithValue(line, pat, v) ==
    LET m == MatchAt(line, ReSearch(line, pat), pat) IN
    SubSeq(line, 1, m.open) \o v \o SubSeq(line, m.close, Len(line))

\* line, with the leftmost field of pat (key, white space, quoted value)
\* replaced by the text field and nothing else touched
WithField(line, pat, field) ==
    LET k == ReSearch(line, pat)
        m == MatchAt(line, k, pat) IN
    SubSeq(line, 1, k - 1) \o field \o SubSeq(line, m.close + 1, Len(line))

\* line, with the text ins put right after the leftmost retrobat field that
\* a comma follows (after the comma)
InsertedAfterRetrobat(line, ins) ==
    LET m == MatchAt(line, ReSearch(line, RetrobatCommaPattern), RetrobatCommaPattern) IN
    SubSeq(line, 1, m.end) \o ins \o SubSeq(line, m.end + 1, Len(line))

\* The line matches no known id, as each script looks for one
NoKnownId(line) ==
    IF script = "rgs"
    THEN \A k \in 1..Len(mappings) :
            /\ ~Contains(line, RetrobatField(mappings[k].id))
            /\ ~Contains(line, SrcField(mappings[k].src))
    ELSE \/ ValueOf(line, RetrobatPattern) = <<>>
         \/ ValueOf(line, RetrobatPattern)[1] \notin Keys(mappings)

-----------------------------------------------------------------------------
(* C1: idempotence.  In a run that follows a complete run on the same      *)
(* files, update_yaml_file leaves the target as it found it and returns an *)
(* updated count of 0.                                                     *)
C1_Idempotent ==
    (run > 1 /\ Written) => (yamlFile = backupFile /\ updated_count = 0)

\* C1 for the src script alone
C1_IdempotentSrc ==
    (script = "src" /\ run > 1 /\ Written) => (yamlFile = backupFile /\ updated_count = 0)

-----------------------------------------------------------------------------
(* C2: frame.  A line that matches no known id is written back identical   *)
(* and at the same position, and the number of lines of the target never   *)
(* changes.                                                                *)
C2_Frame ==
    LET orig == Orig
        now  == ReadLines(yamlFile) IN
    /\ pc = "loop" =>
         /\ Len(lines) = Len(orig)
         /\ \A k \in 1..Len(lines) :
               (Patched(k) /\ NoKnownId(orig[k])) => lines[k] = orig[k]
    /\ Written =>
         /\ Len(now) = Len(orig)
         /\ \A k \in 1..Len(orig) : NoKnownId(orig[k]) => now[k] = orig[k]

\* A target written back with one line that matches no id, untouched, and
\* another line rewritten
C2_Witness ==
    /\ pc = "report"
    /\ \E k \in 1..Len(Orig) : NoKnownId(Orig[k]) /\ ReadLines(yamlFile)[k] = Orig[k]
    /\ \E k \in 1..Len(Orig) : ReadLines(yamlFile)[k] # Orig[k]

-----------------------------------------------------------------------------
(* Notions of C3 *)

\* path without its leading root, path itself when it does not begin with it
StripLeadingRoot(path) ==
    IF StartsAt(path, 1, RomsRoot)
    THEN SubSeq(path, Len(RomsRoot) + 1, Len(path))
    ELSE path

\* The last row of the CSV that sets id
LastRowOf(id) ==
    csvFile[CHOOSE k \in 2..Len(csvFile) :
               /\ Len(csvFile[k]) >= 4 /\ csvFile[k][2] = id
               /\ \A j \in (k + 1)..Len(csvFile) :
                     ~(Len(csvFile[j]) >= 4 /\ csvFile[j][2] = id)]

(* C3: for every row of four columns or more, the stored normalized path   *)
(* is the row's path with a leading "/roms/" removed, and only that one,   *)
(* and does not begin with "/roms/".                                       *)
C3_LeadingRootOnly ==
    pc \in {"backup", "read_yaml", "loop", "report", "return"} =>
        \A k \in 1..Len(mappings) :
            /\ mappings[k].src = StripLeadingRoot(LastRowOf(mappings[k].id)[4])
            /\ ~StartsAt(mappings[k].src, 1, RomsRoot)

-----------------------------------------------------------------------------
(* Steps of the loop, for the claims about one line *)

\* The next step of the rgs script is an iteration of the loop; lines[i] is
\* then the line as it was read
InRgsStep == pc = "loop" /\ script = "rgs" /\ i <= Len(lines)

\* The entry of the id that the rgs script matches to the line
Matched(line) == mappings[MatchSystem(line, mappings)]

-----------------------------------------------------------------------------
(* C4, as claimed: in the rgs script, a line matched to an id whose        *)
(* retrobat_rgs field already holds that id is written back unchanged and  *)
(* is not counted.                                                         *)

C4_Pre(line) ==
    /\ MatchSystem(line, mappings) # 0
    /\ ValueOf(line, RgsPattern) = <<Matched(line).id>>

C4_Original ==
    [][(InRgsStep /\ C4_Pre(lines[i])) =>
          (lines'[i] = lines[i] /\ updated_count' = updated_count)]_vars

(* C4, amended: such a line is not counted and its retrobat_rgs field is   *)
(* not rewritten; the line is written back unchanged when it has no src    *)
(* field or its src value is already the id's normalized path, and         *)
(* otherwise only its src field is rewritten.                              *)
C4_RgsFieldKept ==
    [][(InRgsStep /\ C4_Pre(lines[i])) =>
          /\ updated_count' = updated_count
          /\ ValueOf(lines'[i], RgsPattern) = ValueOf(lines[i], RgsPattern)
          /\ IF ValueOf(lines[i], SrcPattern) \in {<<>>, <<Matched(lines[i]).src>>}
             THEN lines'[i] = lines[i]
             ELSE lines'[i] = WithField(lines[i], SrcPattern,
                                        SrcField(Matched(lines[i]).src))]_vars

\* A line whose retrobat_rgs field held the matched id went through the
\* loop and came out with another src value
C4_Witness ==
    /\ script = "rgs"
    /\ \E k \in 1..Len(lines) :
          /\ Patched(k)
          /\ C4_Pre(Orig[k])
          /\ lines[k] # Orig[k]
          /\ ValueOf(lines[k], RgsPattern) = ValueOf(Orig[k], RgsPattern)

-----------------------------------------------------------------------------
(* C5: the unresolved report and the exit status.                          *)

\* The ids in not_found
Unresolved == {not_found[k] : k \in 1..Len(not_found)}

\* not_found is exactly the ids whose expected field is absent from the
\* final text of the target, each once
ReportExact ==
    (pc = "return" \/ Finished) =>
        /\ Unresolved = {id \in Keys(mappings) :
                            IF script = "rgs"
                            THEN ~Contains(yamlFile, RgsField(id))
                            ELSE ~Contains(yamlFile, RetrobatField(id))}
        /\ Len(not_found) = Cardinality(Unresolved)

\* main returns 1 when not_found is not empty and 0 when it is
ExitStatus ==
    Finished => exitCode = (IF not_found = <<>> THEN 0 ELSE 1)

(* C5, as claimed: besides, an id that appears nowhere in the target the   *)
(* run found is in not_found.                                              *)
C5_Original ==
    /\ ReportExact
    /\ ExitStatus
    /\ (pc = "return" \/ Finished) =>
          \A id \in Keys(mappings) : ~Contains(backupFile, id) => id \in Unresolved

(* C5, amended: an id is in not_found when the target the run found holds  *)
(* neither the id nor, for the rgs script, a src field with the id's       *)
(* normalized path (src: "path").                                          *)
C5_Report ==
    /\ ReportExact
    /\ ExitStatus
    /\ (pc = "return" \/ Finished) =>
          \A id \in Keys(mappings) :
             (/\ ~Contains(backupFile, id)
              /\ script = "rgs" => ~Contains(backupFile, SrcField(Lookup(mappings, id).src)))
             => id \in Unresolved

\* main returned 1 with one id reported, absent from the target the run
\* found, and another id resolved
C5_Witness ==
    /\ Finished
    /\ exitCode = 1
    /\ \E id \in Unresolved : ~Contains(backupFile, id)
    /\ \E id \in Keys(mappings) : id \notin Unresolved

-----------------------------------------------------------------------------
(* C6: in the rgs script, a line matched to id X with a src value other    *)
(* than X's normalized path, a retrobat field followed by a comma and no   *)
(* retrobat_rgs field.                                                     *)

C6_Pre(line) ==
    /\ MatchSystem(line, mappings) # 0
    /\ ValueOf(line, SrcPattern) # <<>>
    /\ ValueOf(line, SrcPattern) # <<Matched(line).src>>
    /\ ReSearch(line, RetrobatCommaPattern) # 0
    /\ ReSearch(line, RgsPattern) = 0

\* The field inserted for id: ' retrobat_rgs: "id",'
NewRgsField(id) == <<" ">> \o RgsField(id) \o <<",">>

-----------------------------------------------------------------------------
(* C8: the src script, line by line.                                       *)

\* The line has a retrobat marker that holds an id of the mapping
KnownMarker(line) ==
    /\ ValueOf(line, RetrobatPattern) # <<>>
    /\ ValueOf(line, RetrobatPattern)[1] \in Keys(mappings)

\* The normalized path of the id in the line's retrobat marker
MarkerSrc(line) == Lookup(mappings, ValueOf(line, RetrobatPattern)[1]).src

\* The line has a known marker and a src value other than the id's
\* normalized path; the lines of that kind that went through the loop
SrcDiffersAt(line) ==
    /\ KnownMarker(line)
    /\ ValueOf(line, SrcPattern) # <<>>
    /\ ValueOf(line, SrcPattern) # <<MarkerSrc(line)>>

SrcDiffers ==
    LET orig == Orig IN
    {k \in 1..Len(lines) : Patched(k) /\ SrcDiffersAt(orig[k])}

-----------------------------------------------------------------------------
\* This step writes the target
WritesTarget == (pc = "loop" /\ pc' = "report") \/ yamlFile' # yamlFile

(* C7: the order of main's side effects.  The target is written only when  *)
(* both input files exist and the backup holds the target's content as it  *)
(* was before the write; when the CSV or the target is missing, neither    *)
(* the target nor a backup is written and the process exits with status 1. *)
C7_BackupFirst ==
    [][/\ WritesTarget =>
            (csvExists /\ yamlExists /\ backupExists /\ backupFile = yamlFile)
       /\ (~csvExists \/ ~yamlExists) =>
            /\ UNCHANGED <<yamlFile, backupFile, backupExists>>
            /\ ~backupExists
            /\ pc' = "done" => exitCode' = 1]_vars

\* The target was written with a content other than the one the run found,
\* which the backup holds
C7_Witness ==
    /\ pc = "report"
    /\ backupExists
    /\ yamlFile # backupFile

-----------------------------------------------------------------------------
(* Notions of C9 and C10 *)

\* The lines that went through the loop and came out with another
\* retrobat_rgs field than they had
RgsChanged ==
    LET orig == Orig IN
    {k \in 1..Len(lines) :
        Patched(k) /\ ValueOf(lines[k], RgsPattern) # ValueOf(orig[k], RgsPattern)}

(* C9: in the rgs script a line is counted only if its retrobat_rgs field  *)
(* was rewritten or inserted, so updated_count is the number of lines      *)
(* whose retrobat_rgs field changed.                                       *)
C9_CountIsChanges ==
    script = "rgs" => updated_count = Cardinality(RgsChanged)

-----------------------------------------------------------------------------
(* C10: in the rgs script a line that holds retrobat: "X" for an id X of   *)
(* the mapping, and a src field, is matched to X: it comes out with X's    *)
(* normalized path as its src value, and a retrobat_rgs value written on   *)
(* it is X.                                                                *)
C10_MarkerWins ==
    script = "rgs" =>
        LET orig == Orig IN
        \A k \in 1..Len(lines) : \A e \in 1..Len(mappings) :
            (/\ Patched(k)
             /\ Contains(orig[k], RetrobatField(mappings[e].id))
             /\ ValueOf(orig[k], SrcPattern) # <<>>)
            => /\ ValueOf(lines[k], SrcPattern) = <<mappings[e].src>>
               /\ k \in RgsChanged => ValueOf(lines[k], RgsPattern) = <<mappings[e].id>>

=============================================================================
